---- MODULE Spec2Model ----
(***************************************************************************)
(* Model of src/examples/7_cuda_scapp/4_scapp_acq_fifo_fft.py: a digitizer  *)
(* card is configured for FIFO acquisition, a SCAPP (RDMA) transfer streams *)
(* notify blocks into GPU memory, and every block is converted to volts,    *)
(* Fourier transformed, scaled to dBFS, copied to the host and, one block   *)
(* in ten, plotted.                                                         *)
(*                                                                          *)
(* The script is one sequential process; pc is the statement it is about to *)
(* execute.  The card's DMA engine is the only concurrent party.  Buffers   *)
(* are modelled by their length and by the block whose data they hold.      *)
(* Voltages are exact rationals (millivolt numerator, integer denominator); *)
(* the float32 arithmetic of the dBFS kernel is modelled with its rounding, *)
(* in units of one half.                                                    *)
(***************************************************************************)
EXTENDS Integers, Sequences, FiniteSets

VARIABLES
    pc,                        \* statement the script executes next
    card_open,                 \* the card handle of the with block is open
    failure,                   \* "none", or the statement whose call raised
    calls,                     \* history of the library calls that returned
    notify_samples,            \* line 53, in samples
    amplitude,                 \* line 42, in millivolt (0: not yet read)
    max_value,                 \* line 44 (0: not yet read)
    notify_samples_magnitude,  \* line 54 (0: not yet set)
    transfer_notify,           \* notify size held by the transfer object
    num_fft_samples,           \* line 63
    data_volt_gpu,             \* line 66
    spectrum_gpu,              \* line 67
    factor_signal_to_volt,     \* line 75, <<millivolt, divisor>>
    plot_divider,              \* line 86
    started,                   \* the card runs (line 95)
    counter,                   \* line 97 / 120
    avail,                     \* blocks the DMA engine has completed
    yielded,                   \* blocks the transfer's iterator has handed out
    data_raw_gpu,              \* loop variable of line 98
    fftdata_gpu,               \* line 107
    spectrum_cpu,              \* line 113
    line_ydata,                \* y data of the plotted line (line 117)
    divisor_h                  \* divisor the dBFS kernel last used, in halves

vars == <<pc, card_open, failure, calls, notify_samples, amplitude, max_value,
          notify_samples_magnitude, transfer_notify, num_fft_samples,
          data_volt_gpu, spectrum_gpu, factor_signal_to_volt, plot_divider,
          started, counter, avail, yielded, data_raw_gpu, fftdata_gpu,
          spectrum_cpu, line_ydata, divisor_h>>

---------------------------------------------------------------------------
(* Bounds of the model. *)

\* blocks the DMA engine completes in a run
MaxBlocks == 21

\* the notify sizes 1 .. MaxSmallN are tried besides the large ones
MaxSmallN == 6

---------------------------------------------------------------------------
(* Program constants. *)

\* 64 * units.KiS: factor and the size of one KiS
NotifyKiS == 64
KiS == 1024

\* channels[0].amp(1 * units.V): the amplitude the card reports, in millivolt
AmplitudeMilliVolt == 1000

\* plot 1 in 10 data blocks
PlotDividerValue == 10

\* the significand of a float32 holds 24 bits
F32Bits == 24

\* card.max_sample_value() of the 8, 14 and 16 bit card families
MaxSampleValues == {127, 8191, 32767}

NoBlock == 0 - 1
NoBuffer == [len |-> 0, blk |-> NoBlock]

---------------------------------------------------------------------------
(* Arithmetic of the script and of its kernels. *)

RECURSIVE Pow2(_)
Pow2(k) == IF k = 0 THEN 1 ELSE 2 * Pow2(k - 1)

\* the spacing of the float32 values around h (h counted in halves): one half
\* up to 2^23, and doubling with every further power of two
RECURSIVE UlpH(_)
UlpH(h) == IF h < Pow2(F32Bits) THEN 1 ELSE 2 * UlpH(h \div 2)

\* round-to-nearest-even conversion of h halves to float32
RoundF32H(h) ==
    LET u == UlpH(h)
        q == h \div u
        r == h % u
    IN  IF 2 * r < u THEN q * u
        ELSE IF 2 * r > u THEN (q + 1) * u
        ELSE IF q % 2 = 0 THEN q * u ELSE (q + 1) * u

\* variant: the divisor without the + 1.0f
MutKernelDivisorNoOffset(numElem) ==
    RoundF32H(RoundF32H(2 * numElem) \div 2)

\* numElem / 2.0f + 1.0f of kernel_fft_to_spectrum, in halves: numElem is
\* converted to float32, halved (exact) and incremented (rounded)
KernelDivisorH(numElem) ==
    RoundF32H((RoundF32H(2 * numElem) \div 2) + 2)

\* variant: the spectrum length without the + 1
MutNumFftSamplesNoOffset(n) == n \div 2

\* notify_samples_magnitude // 2 + 1
NumFftSamples(n) == n \div 2 + 1

\* length of cp.fft.rfft of a real array of n samples
RfftLen(n) == n \div 2 + 1

\* variant: the amplitude divided by max_value + 1 (2^15 for a 16 bit card)
MutFactorPerBit(a, m) == <<a, m + 1>>

\* amplitude.to(units.V).magnitude / max_value
FactorSignalToVolt(a, m) == <<a, m>>

\* convertedData = rawData * voltPerLSB, as a fraction <<millivolt, divisor>>
SignalToVoltValue(raw, factor) == <<raw * factor[1], factor[2]>>

\* the fraction f equals mv millivolt
FractionIs(f, mv) == f[2] # 0 /\ f[1] = mv * f[2]

\* variant: the last block of every ten is plotted instead of the first
MutPlotDueLast(c, divider) == c % divider = divider - 1

\* counter % plot_divider == 0
PlotDue(c, divider) == c % divider = 0

---------------------------------------------------------------------------
(* Order of the statements. *)

\* variant: the card is started before the buffer transfer
MutScriptStartEarly ==
    <<"open", "card_mode", "trigger", "channels", "clock", "notify",
      "allocate", "start", "start_transfer", "alloc_gpu", "kernels",
      "plot_setup", "counter">>

\* the straight-line part of the script, in source order
Script ==
    <<"open", "card_mode", "trigger", "channels", "clock", "notify",
      "allocate", "start_transfer", "alloc_gpu", "kernels", "plot_setup",
      "start", "counter">>

\* variant: the plot is updated before the spectrum is copied to the host
MutLoopBodyCopyLate ==
    <<"to_volt", "rfft", "to_spectrum", "plot", "asnumpy", "incr">>

\* the body of the for loop, in source order
LoopBody == <<"to_volt", "rfft", "to_spectrum", "asnumpy", "plot", "incr">>

\* variant: the body is repeated without fetching a block
MutLoopHeadNoFetch == "to_volt"

\* variant: the loop is left after its body
MutLoopHeadLeave == "exit"

\* where the end of the loop body continues: the for statement, which has
\* no break and no condition of its own
LoopHead == "next"

IndexOf(s, l) == CHOOSE i \in 1..Len(s) : s[i] = l

\* the statement executed after statement l returned
After(l) ==
    IF \E i \in 1..Len(Script) : Script[i] = l
    THEN IF IndexOf(Script, l) = Len(Script) THEN "next"
         ELSE Script[IndexOf(Script, l) + 1]
    ELSE IF l = "next" THEN LoopBody[1]
    ELSE IF IndexOf(LoopBody, l) = Len(LoopBody) THEN LoopHead
         ELSE LoopBody[IndexOf(LoopBody, l) + 1]

Call(op) == [op |-> op, blk |-> NoBlock, iter |-> NoBlock]
Step(op, blk) == [op |-> op, blk |-> blk, iter |-> counter]

InLoop == pc \in {"next", "to_volt", "rfft", "to_spectrum", "asnumpy", "plot", "incr"}

---------------------------------------------------------------------------
(* Initial states. *)

InitWith(n) ==
    /\ pc = "open"
    /\ card_open = FALSE
    /\ failure = "none"
    /\ calls = <<>>
    /\ notify_samples = n
    /\ amplitude = 0
    /\ max_value = 0
    /\ notify_samples_magnitude = 0
    /\ transfer_notify = 0
    /\ num_fft_samples = 0
    /\ data_volt_gpu = NoBuffer
    /\ spectrum_gpu = NoBuffer
    /\ factor_signal_to_volt = <<0, 0>>
    /\ plot_divider = 0
    /\ started = FALSE
    /\ counter = 0
    /\ avail = 0
    /\ yielded = 0
    /\ data_raw_gpu = NoBuffer
    /\ fftdata_gpu = NoBuffer
    /\ spectrum_cpu = NoBuffer
    /\ line_ydata = NoBuffer
    /\ divisor_h = 0

\* the script as written: notify_samples = 64 * units.KiS
Init == InitWith(NotifyKiS * KiS)

\* notify sizes for which the arithmetic of the script is examined: small
\* ones, the configured one, and those around the limits of float32
NotifySizes ==
    (1..MaxSmallN) \cup {NotifyKiS * KiS}
    \cup {Pow2(F32Bits) - 4, Pow2(F32Bits) - 3, Pow2(F32Bits) - 2,
          Pow2(F32Bits) - 1, Pow2(F32Bits), Pow2(F32Bits) + 1,
          Pow2(F32Bits) + 2, Pow2(F32Bits + 1) - 2, Pow2(F32Bits + 1),
          Pow2(F32Bits + 1) + 2}

\* the script with line 53 set to any of these notify sizes
InitAnySize == \E n \in NotifySizes : InitWith(n)

---------------------------------------------------------------------------
(* Setup, lines 30-97. *)

setupVars == <<notify_samples, amplitude, max_value, notify_samples_magnitude,
               transfer_notify, num_fft_samples, factor_signal_to_volt,
               plot_divider>>
gpuVars == <<data_volt_gpu, spectrum_gpu, data_raw_gpu, fftdata_gpu,
             spectrum_cpu, line_ydata, divisor_h>>
streamVars == <<started, counter, avail, yielded>>

OpenCard ==
    /\ pc = "open"
    /\ card_open' = TRUE
    /\ calls' = Append(calls, Call("open"))
    /\ pc' = After("open")
    /\ UNCHANGED <<failure, setupVars, gpuVars, streamVars>>

CardSetup ==
    /\ pc = "card_mode"
    /\ calls' = Append(calls, Call("card_mode"))
    /\ pc' = After("card_mode")
    /\ UNCHANGED <<card_open, failure, setupVars, gpuVars, streamVars>>

TriggerSetup ==
    /\ pc = "trigger"
    /\ calls' = Append(calls, Call("trigger"))
    /\ pc' = After("trigger")
    /\ UNCHANGED <<card_open, failure, setupVars, gpuVars, streamVars>>

ChannelSetup ==
    /\ pc = "channels"
    /\ \E m \in MaxSampleValues :
          /\ amplitude' = AmplitudeMilliVolt
          /\ max_value' = m
    /\ calls' = Append(calls, Call("channels"))
    /\ pc' = After("channels")
    /\ UNCHANGED <<card_open, failure, notify_samples, notify_samples_magnitude,
                   transfer_notify, num_fft_samples, factor_signal_to_volt,
                   plot_divider, gpuVars, streamVars>>

ClockSetup ==
    /\ pc = "clock"
    /\ calls' = Append(calls, Call("clock"))
    /\ pc' = After("clock")
    /\ UNCHANGED <<card_open, failure, setupVars, gpuVars, streamVars>>

NotifySetup ==
    /\ pc = "notify"
    /\ notify_samples_magnitude' = notify_samples
    /\ transfer_notify' = notify_samples
    /\ calls' = Append(calls, Call("notify"))
    /\ pc' = After("notify")
    /\ UNCHANGED <<card_open, failure, notify_samples, amplitude, max_value,
                   num_fft_samples, factor_signal_to_volt, plot_divider,
                   gpuVars, streamVars>>

AllocateBuffer ==
    /\ pc = "allocate"
    /\ calls' = Append(calls, Call("allocate"))
    /\ pc' = After("allocate")
    /\ UNCHANGED <<card_open, failure, setupVars, gpuVars, streamVars>>

StartBufferTransfer ==
    /\ pc = "start_transfer"
    /\ calls' = Append(calls, Call("start_transfer"))
    /\ pc' = After("start_transfer")
    /\ UNCHANGED <<card_open, failure, setupVars, gpuVars, streamVars>>

AllocGpu ==
    /\ pc = "alloc_gpu"
    /\ num_fft_samples' = NumFftSamples(notify_samples_magnitude)
    /\ data_volt_gpu' = [len |-> notify_samples_magnitude, blk |-> NoBlock]
    /\ spectrum_gpu' = [len |-> num_fft_samples', blk |-> NoBlock]
    /\ calls' = Append(calls, Call("alloc_gpu"))
    /\ pc' = After("alloc_gpu")
    /\ UNCHANGED <<card_open, failure, notify_samples, amplitude, max_value,
                   notify_samples_magnitude, transfer_notify,
                   factor_signal_to_volt, plot_divider, data_raw_gpu,
                   fftdata_gpu, spectrum_cpu, line_ydata, divisor_h, streamVars>>

CompileKernels ==
    /\ pc = "kernels"
    /\ factor_signal_to_volt' = FactorSignalToVolt(amplitude, max_value)
    /\ calls' = Append(calls, Call("kernels"))
    /\ pc' = After("kernels")
    /\ UNCHANGED <<card_open, failure, notify_samples, amplitude, max_value,
                   notify_samples_magnitude, transfer_notify, num_fft_samples,
                   plot_divider, gpuVars, streamVars>>

PlotSetup ==
    /\ pc = "plot_setup"
    /\ plot_divider' = PlotDividerValue
    /\ line_ydata' = [len |-> RfftLen(notify_samples_magnitude), blk |-> NoBlock]
    /\ calls' = Append(calls, Call("plot_setup"))
    /\ pc' = After("plot_setup")
    /\ UNCHANGED <<card_open, failure, notify_samples, amplitude, max_value,
                   notify_samples_magnitude, transfer_notify, num_fft_samples,
                   factor_signal_to_volt, data_volt_gpu, spectrum_gpu,
                   data_raw_gpu, fftdata_gpu, spectrum_cpu, divisor_h,
                   streamVars>>

CardStart ==
    /\ pc = "start"
    /\ started' = TRUE
    /\ calls' = Append(calls, Call("start"))
    /\ pc' = After("start")
    /\ UNCHANGED <<card_open, failure, setupVars, gpuVars, counter, avail,
                   yielded>>

InitCounter ==
    /\ pc = "counter"
    /\ counter' = 0
    /\ pc' = After("counter")
    /\ UNCHANGED <<card_open, failure, calls, setupVars, gpuVars, started,
                   avail, yielded>>

---------------------------------------------------------------------------
(* The streaming transfer, as the script sees it. *)

\* the DMA engine completes one more notify block
DmaNotify ==
    /\ started
    /\ card_open
    /\ avail < MaxBlocks
    /\ avail' = avail + 1
    /\ UNCHANGED <<pc, card_open, failure, calls, setupVars, gpuVars, started,
                   counter, yielded>>

\* the block the iterator hands out next, once the DMA engine completed it
TransferNext == [len |-> transfer_notify, blk |-> yielded]

\* for data_raw_gpu in scapp_transfer: blocks until a block is ready
NextBlock ==
    /\ pc = "next"
    /\ yielded < avail
    /\ data_raw_gpu' = TransferNext
    /\ yielded' = yielded + 1
    /\ calls' = Append(calls, Step("next", TransferNext.blk))
    /\ pc' = After("next")
    /\ UNCHANGED <<card_open, failure, setupVars, data_volt_gpu, spectrum_gpu,
                   fftdata_gpu, spectrum_cpu, line_ydata, divisor_h, started,
                   counter, avail>>

\* the iterator is exhausted: the for statement falls through
SequenceEnds ==
    /\ pc = "next"
    /\ pc' = "exit"
    /\ UNCHANGED <<card_open, failure, calls, setupVars, gpuVars, streamVars>>

---------------------------------------------------------------------------
(* The loop body, lines 104-120. *)

\* kernel_signal_to_volt(data_raw_gpu, factor_signal_to_volt, data_volt_gpu)
SignalToVolt ==
    /\ pc = "to_volt"
    /\ data_raw_gpu.len = data_volt_gpu.len
    /\ data_volt_gpu' = [len |-> data_volt_gpu.len, blk |-> data_raw_gpu.blk]
    /\ calls' = Append(calls, Step("volt", data_raw_gpu.blk))
    /\ pc' = After("to_volt")
    /\ UNCHANGED <<card_open, failure, setupVars, spectrum_gpu, data_raw_gpu,
                   fftdata_gpu, spectrum_cpu, line_ydata, divisor_h, streamVars>>

\* fftdata_gpu = cp.fft.rfft(data_volt_gpu)
Rfft ==
    /\ pc = "rfft"
    /\ fftdata_gpu' = [len |-> RfftLen(data_volt_gpu.len), blk |-> data_volt_gpu.blk]
    /\ calls' = Append(calls, Step("fft", data_volt_gpu.blk))
    /\ pc' = After("rfft")
    /\ UNCHANGED <<card_open, failure, setupVars, data_volt_gpu, spectrum_gpu,
                   data_raw_gpu, spectrum_cpu, line_ydata, divisor_h, streamVars>>

\* kernel_fft_to_spectrum(fftdata_gpu, notify_samples_magnitude,
\*                        amplitude_magnitude_V, spectrum_gpu)
FftToSpectrum ==
    /\ pc = "to_spectrum"
    /\ fftdata_gpu.len = spectrum_gpu.len
    /\ spectrum_gpu' = [len |-> spectrum_gpu.len, blk |-> fftdata_gpu.blk]
    /\ divisor_h' = KernelDivisorH(notify_samples_magnitude)
    /\ calls' = Append(calls, Step("spectrum", fftdata_gpu.blk))
    /\ pc' = After("to_spectrum")
    /\ UNCHANGED <<card_open, failure, setupVars, data_volt_gpu, data_raw_gpu,
                   fftdata_gpu, spectrum_cpu, line_ydata, streamVars>>

\* variant: the spectrum is copied to the host only when a plot is due
MutAsnumpyWhenDue ==
    /\ pc = "asnumpy"
    /\ spectrum_cpu' = IF PlotDue(counter, plot_divider) THEN spectrum_gpu
                       ELSE spectrum_cpu
    /\ calls' = Append(calls, Step("copy", spectrum_gpu.blk))
    /\ pc' = After("asnumpy")
    /\ UNCHANGED <<card_open, failure, setupVars, data_volt_gpu, spectrum_gpu,
                   data_raw_gpu, fftdata_gpu, line_ydata, divisor_h, streamVars>>

\* spectrum_cpu = cp.asnumpy(spectrum_gpu)
Asnumpy ==
    /\ pc = "asnumpy"
    /\ spectrum_cpu' = spectrum_gpu
    /\ calls' = Append(calls, Step("copy", spectrum_gpu.blk))
    /\ pc' = After("asnumpy")
    /\ UNCHANGED <<card_open, failure, setupVars, data_volt_gpu, spectrum_gpu,
                   data_raw_gpu, fftdata_gpu, line_ydata, divisor_h, streamVars>>

\* if counter % plot_divider == 0: set_ydata, draw, flush_events
PlotUpdate ==
    /\ pc = "plot"
    /\ PlotDue(counter, plot_divider)
    /\ line_ydata' = spectrum_cpu
    /\ calls' = Append(calls, Step("plot", spectrum_cpu.blk))
    /\ pc' = After("plot")
    /\ UNCHANGED <<card_open, failure, setupVars, data_volt_gpu, spectrum_gpu,
                   data_raw_gpu, fftdata_gpu, spectrum_cpu, divisor_h, streamVars>>

\* the condition of line 116 is false
PlotSkip ==
    /\ pc = "plot"
    /\ ~PlotDue(counter, plot_divider)
    /\ pc' = After("plot")
    /\ UNCHANGED <<card_open, failure, calls, setupVars, gpuVars, streamVars>>

\* counter += 1
CounterIncr ==
    /\ pc = "incr"
    /\ counter' = counter + 1
    /\ pc' = After("incr")
    /\ UNCHANGED <<card_open, failure, calls, setupVars, gpuVars, started,
                   avail, yielded>>

---------------------------------------------------------------------------
(* The ends of the script. *)

\* the statements that call into the SDK, the GPU library or the plotting
\* library; line 116 calls the plotting library only when a plot is due
Fallible ==
    /\ pc \in {"open", "card_mode", "trigger", "channels", "clock", "notify",
               "allocate", "start_transfer", "alloc_gpu", "kernels",
               "plot_setup", "start", "next", "to_volt", "rfft",
               "to_spectrum", "asnumpy", "plot"}
    /\ pc = "plot" => PlotDue(counter, plot_divider)

\* variant: a failed statement is executed again
MutOnFailureRetry(l) == l

\* where the script continues when the call of statement l raises: nothing
\* catches the exception, the with block closes the card and the script ends
OnFailure(l) == "failed"

\* a library call raises (open failure, timeout, overrun, compilation
\* failure, mismatching shapes, ...)
CallFails ==
    /\ Fallible
    /\ failure' = pc
    /\ pc' = OnFailure(pc)
    /\ card_open' = FALSE
    /\ UNCHANGED <<calls, setupVars, gpuVars, streamVars>>

\* the with block is left after the loop: the card is closed
ExitWith ==
    /\ pc = "exit"
    /\ card_open' = FALSE
    /\ pc' = "done"
    /\ UNCHANGED <<failure, calls, setupVars, gpuVars, streamVars>>

---------------------------------------------------------------------------

Next ==
    \/ OpenCard \/ CardSetup \/ TriggerSetup \/ ChannelSetup \/ ClockSetup
    \/ NotifySetup \/ AllocateBuffer \/ StartBufferTransfer \/ AllocGpu
    \/ CompileKernels \/ PlotSetup \/ CardStart \/ InitCounter
    \/ DmaNotify \/ NextBlock \/ SequenceEnds
    \/ SignalToVolt \/ Rfft \/ FftToSpectrum \/ Asnumpy
    \/ PlotUpdate \/ PlotSkip \/ CounterIncr
    \/ CallFails \/ ExitWith

\* the script as written
Spec == Init /\ [][Next]_vars

\* the script with any of the notify sizes
SpecAnySize == InitAnySize /\ [][Next]_vars

---------------------------------------------------------------------------
(* Reading the history of calls. *)

Called(op) == \E i \in DOMAIN calls : calls[i].op = op
CountOf(op) == Cardinality({i \in DOMAIN calls : calls[i].op = op})
CountOn(op, b) ==
    Cardinality({i \in DOMAIN calls : calls[i].op = op /\ calls[i].blk = b})
IsProcessing(e) == e.op \in {"volt", "fft", "spectrum", "copy", "plot"}
ProcessingLog == SelectSeq(calls, IsProcessing)
DueAt(k) == k % PlotDividerValue = 0

---------------------------------------------------------------------------
(* C1 *)

\* b may be the processing step that directly follows processing step a
Follows(a, b) ==
    \/ a.op = "volt" /\ b.op = "fft" /\ b.iter = a.iter /\ b.blk = a.blk
    \/ a.op = "fft" /\ b.op = "spectrum" /\ b.iter = a.iter /\ b.blk = a.blk
    \/ a.op = "spectrum" /\ b.op = "copy" /\ b.iter = a.iter /\ b.blk = a.blk
    \/ a.op = "copy" /\ b.op = "plot" /\ b.iter = a.iter /\ b.blk = a.blk
         /\ DueAt(a.iter)
    \/ a.op = "copy" /\ b.op = "volt" /\ b.iter = a.iter + 1 /\ ~DueAt(a.iter)
    \/ a.op = "plot" /\ b.op = "volt" /\ b.iter = a.iter + 1

\* C1: the processing steps of every block run in the order volt kernel, FFT,
\* dBFS kernel, copy to the host, plot (the plot only when one is due), all
\* within one iteration and on that iteration's block, and the first step of
\* iteration k+1 comes only after the copy of iteration k and, when a plot is
\* due in iteration k, after that plot.
C1_StepOrder ==
    LET p == ProcessingLog
    IN  /\ p # <<>> => (p[1].op = "volt" /\ p[1].iter = 0)
        /\ \A i \in 1..(Len(p) - 1) : Follows(p[i], p[i + 1])
        /\ \A i \in DOMAIN calls : calls[i].op = "volt" =>
               (i > 1 /\ calls[i - 1].op = "next" /\ calls[i - 1].blk = calls[i].blk)

\* the eleventh block was plotted, after ten blocks of which only the first was
C1_Witness ==
    /\ pc = "incr"
    /\ counter = PlotDividerValue
    /\ line_ydata.blk = data_raw_gpu.blk

---------------------------------------------------------------------------
(* C2 *)

PlottedIterations == {calls[i].iter : i \in {j \in DOMAIN calls : calls[j].op = "plot"}}

\* C2: between two iterations, with n blocks processed, the counter is n, the
\* plotted blocks are exactly the blocks k < n with k mod 10 = 0, each plotted
\* once, so that ceil(n / 10) plots were made; and the counter grows by one
\* in every iteration, plotted or not.
C2_PlotPeriod ==
    /\ pc = "next" =>
          /\ counter = CountOf("copy")
          /\ PlottedIterations = {k \in 0..(counter - 1) : k % 10 = 0}
          /\ CountOf("plot") = (counter + 9) \div 10
    /\ pc \in {"to_volt", "rfft", "to_spectrum", "asnumpy"} =>
          counter = CountOf("volt") - (IF pc = "to_volt" THEN 0 ELSE 1)
    /\ pc \in {"plot", "incr"} => counter = CountOf("copy") - 1
    /\ pc = "incr" => (Called("plot") /\ calls[Len(calls)].op = "plot"
                          /\ calls[Len(calls)].iter = counter) <=> counter % 10 = 0

\* 21 blocks processed, 3 of them plotted
C2_Witness ==
    /\ pc = "next"
    /\ counter = 2 * PlotDividerValue + 1
    /\ CountOf("plot") = 3

---------------------------------------------------------------------------
(* C3 *)

FullyProcessed(b) ==
    \A op \in {"next", "volt", "fft", "spectrum", "copy"} : CountOn(op, b) = 1

\* C3: a step only ever works on a block the DMA engine completed and the
\* transfer handed out; the blocks appear in the history in the order of
\* their delivery, one after the other (never two interleaved); no step runs
\* twice on a block; and between iterations every block handed out so far
\* was processed exactly once.
C3_OneBlockAtATime ==
    /\ yielded <= avail
    /\ \A i \in DOMAIN calls : calls[i].blk # NoBlock =>
          /\ calls[i].blk \in 0..(yielded - 1)
          /\ calls[i].blk = calls[i].iter
          /\ \A j \in DOMAIN calls : (j > i) => calls[j].blk >= calls[i].blk
    /\ \A b \in 0..(yielded - 1) :
          /\ \A op \in {"next", "volt", "fft", "spectrum", "copy", "plot"} :
                CountOn(op, b) <= 1
          /\ (b < yielded - 1 \/ pc \in {"next", "exit", "done"}) => FullyProcessed(b)

\* three blocks processed while the DMA engine is two blocks ahead
C3_Witness ==
    /\ pc = "next"
    /\ yielded = 3
    /\ avail = 5
    /\ FullyProcessed(2)

---------------------------------------------------------------------------
(* C4 *)

\* C4: once a call has failed the script is over: it is at its end with the
\* card closed, and from then on no call is made, no block is fetched or
\* processed, and the failed statement is not executed again.
C4_FailureEndsScript ==
    /\ [](failure # "none" => (pc = "failed" /\ ~card_open))
    /\ [][failure # "none" =>
             (pc' = pc /\ calls' = calls /\ counter' = counter
              /\ yielded' = yielded /\ failure' = failure
              /\ UNCHANGED <<setupVars, gpuVars>>)]_vars

\* the wait for the third block failed (a timeout or an overrun) while the
\* DMA engine had not completed it
C4_Witness ==
    /\ failure = "next"
    /\ pc = "failed"
    /\ counter = 2
    /\ avail = yielded
    /\ ~card_open

---------------------------------------------------------------------------
(* C5 *)

\* C5: from their allocation on the spectrum buffer has N div 2 + 1
\* elements, and so has its host copy once it exists; after the copy of an
\* iteration both hold the spectrum of that iteration's block, whether or
\* not the block is plotted.
C5_SpectrumEveryBlock ==
    /\ Called("alloc_gpu") => spectrum_gpu.len = notify_samples_magnitude \div 2 + 1
    /\ Called("copy") => spectrum_cpu.len = notify_samples_magnitude \div 2 + 1
    /\ pc \in {"plot", "incr"} =>
          /\ spectrum_gpu.blk = data_raw_gpu.blk
          /\ spectrum_cpu.blk = data_raw_gpu.blk
          /\ data_raw_gpu.blk = counter

\* the spectrum of a block that is not plotted has reached the host
C5_Witness ==
    /\ pc = "plot"
    /\ counter = 3
    /\ ~PlotDue(counter, plot_divider)
    /\ spectrum_cpu.blk = 3
    /\ line_ydata.blk = 0

---------------------------------------------------------------------------
(* C6 *)

\* C6: in every iteration the raw buffer and the voltage buffer both have N
\* elements when the volt kernel is called, the FFT result and the spectrum
\* buffer both have N div 2 + 1 elements when the dBFS kernel is called, and
\* throughout the loop the two buffers of the script keep the lengths they
\* were allocated with.
C6_MatchingLengths ==
    /\ pc \in {"to_volt", "rfft", "to_spectrum", "asnumpy", "plot", "incr"} =>
          /\ data_raw_gpu.len = notify_samples_magnitude
          /\ data_volt_gpu.len = data_raw_gpu.len
    /\ pc \in {"to_spectrum", "asnumpy", "plot", "incr"} =>
          /\ fftdata_gpu.len = notify_samples_magnitude \div 2 + 1
          /\ spectrum_gpu.len = fftdata_gpu.len
    /\ InLoop =>
          /\ data_volt_gpu.len = notify_samples
          /\ spectrum_gpu.len = num_fft_samples

\* the dBFS kernel is about to be called for the second block of an odd size
C6_Witness ==
    /\ pc = "to_spectrum"
    /\ counter = 1
    /\ notify_samples_magnitude = 5
    /\ fftdata_gpu.len = 3
    /\ spectrum_gpu.len = 3

---------------------------------------------------------------------------
(* C7 *)

\* C7: the loop is left only when the transfer's sequence ends or when a
\* call fails; however many blocks were processed, the end of the loop body
\* leads back to the for statement.
C7_LoopHasNoExit ==
    [][(InLoop /\ ~InLoop') =>
          \/ pc = "next" /\ pc' = "exit" /\ failure' = "none"
          \/ failure = "none" /\ failure' = pc /\ pc' = "failed"]_vars

\* still in the loop after every block the DMA engine completed
C7_Witness ==
    /\ pc = "next"
    /\ counter > PlotDividerValue
    /\ counter = avail
    /\ failure = "none"

---------------------------------------------------------------------------
(* C8 *)

\* C8: the factor is amplitude / max_value from the moment it is computed, so
\* that a raw sample of max_value converts to the amplitude; and no step of
\* the loop changes the factor, the notify size, the amplitude or the plot
\* divider.
C8_FactorFixed ==
    /\ [](Called("kernels") =>
             /\ factor_signal_to_volt[1] * max_value = amplitude * factor_signal_to_volt[2]
             /\ FractionIs(SignalToVoltValue(max_value, factor_signal_to_volt), amplitude))
    /\ [][InLoop => UNCHANGED <<factor_signal_to_volt, notify_samples,
                                 notify_samples_magnitude, amplitude, max_value,
                                 plot_divider>>]_vars

\* the third block is converted with the factor of a 16 bit card
C8_Witness ==
    /\ pc = "rfft"
    /\ counter = 2
    /\ max_value = 32767
    /\ factor_signal_to_volt = <<1000, 32767>>
    /\ data_volt_gpu.blk = 2

---------------------------------------------------------------------------
(* C9 *)

IsCardCall(e) ==
    e.op \in {"open", "card_mode", "trigger", "channels", "clock", "notify",
              "allocate", "start_transfer", "start", "next"}
CardCalls == SelectSeq(calls, IsCardCall)
SetupOrder ==
    <<"open", "card_mode", "trigger", "channels", "clock", "notify",
      "allocate", "start_transfer", "start">>

\* C9: the calls to the card and to the transfer are made in the order open,
\* card mode and timeout, trigger, channel and amplitude, clock, notify size,
\* buffer allocation, start of the buffer transfer, card start, and only then
\* requests for blocks; the card is started once; and every call is made
\* with the card handle open.
C9_StartAfterSetup ==
    /\ [](/\ \A i \in DOMAIN CardCalls :
                CardCalls[i].op = (IF i <= Len(SetupOrder) THEN SetupOrder[i] ELSE "next")
          /\ CountOf("start") <= 1
          /\ started <=> Called("start"))
    /\ [][calls' # calls => card_open']_vars

\* the first block has been requested
C9_Witness ==
    /\ pc = "to_volt"
    /\ counter = 0
    /\ CountOf("start") = 1
    /\ Len(CardCalls) = Len(SetupOrder) + 1
    /\ card_open

---------------------------------------------------------------------------
(* C10 *)

KernelRan == Called("spectrum")

\* C10 as stated: the divisor equals num_fft_samples for every even N
\* and is one half above or below it for every odd N.
C10_AsStated ==
    KernelRan =>
        IF notify_samples_magnitude % 2 = 0
        THEN divisor_h = 2 * num_fft_samples
        ELSE divisor_h - 2 * num_fft_samples \in {0 - 1, 1}

\* C10, amended: the divisor equals num_fft_samples for N = 65536 and for
\* every even N below 2^25, and is one half above it for every odd N below
\* 2^24 - 2; from there on float32 rounds the sum.
C10_DivisorInFloatRange ==
    KernelRan =>
        /\ notify_samples_magnitude = 65536 => divisor_h = 2 * num_fft_samples
        /\ (notify_samples_magnitude % 2 = 0
              /\ notify_samples_magnitude < Pow2(25)) =>
                 divisor_h = 2 * num_fft_samples
        /\ (notify_samples_magnitude % 2 = 1
              /\ notify_samples_magnitude < Pow2(24) - 2) =>
                 divisor_h = 2 * num_fft_samples + 1

\* the kernel ran with the configured notify size
C10_Witness ==
    /\ KernelRan
    /\ notify_samples_magnitude = 65536
    /\ num_fft_samples = 32769
    /\ divisor_h = 65538

====
